---------------------------- MODULE Spec2Model ----------------------------
(***************************************************************************)
(* Classroom whiteboard analyser (backend/).                               *)
(*                                                                         *)
(*   handlers/camera.py    Camera: the capture loop and its interval gate  *)
(*   handlers/analyzer.py  Analyzer: one worker thread per analysis pass   *)
(*   handlers/llm.py       GeminiWrapper.analyze_image: the describer      *)
(*   handlers/detector.py  YOLOTextDetector.detect_text: the detector      *)
(*   app.py                POST /process_image on a threaded Flask server  *)
(*   handlers/ocr.py       Camera: the capture loop that draws on a        *)
(*   handlers/display.py   Display                                         *)
(*                                                                         *)
(* Logging (print) is not modelled; it reads and writes no program state.  *)
(***************************************************************************)
EXTENDS Integers, Sequences, FiniteSets

(***************************************************************************)
(* Bounds of the model.                                                    *)
(***************************************************************************)
\* time.time() runs from StartTime to StartTime + TimeSpan
TimeSpan == 5
\* analysis passes the capture loop may dispatch in one behaviour
MaxPasses == 2
\* frame size in pixels (frame.shape[:2] is (FrameH, FrameW))
FrameW == 40
FrameH == 40
\* detector coordinates are floats: a coordinate is kept in 1/Scale pixels
Scale == 2
\* requests the server handles at the same time
NHandlers == 2
\* regions a detector reports for one frame
MaxDetections == 3
\* self.max_retries is drawn from 0..RetryCap
RetryCap == 3
\* calls of analyze_image on one wrapper
MaxCalls == 3
\* characters of a describer response
MaxResponseLen == 82
\* result objects one YOLO inference returns
MaxResults == 2
\* boxes of one inference, over all its results
MaxBoxes == 4

(***************************************************************************)
(* Program constants.                                                      *)
(***************************************************************************)
\* Camera.__init__(..., analyze_interval=5, ...)
analyze_interval == 5
\* Analyzer.analyze: margin = 10
margin == 10
\* regions_to_analyze = sorted_regions[:min(2, len(sorted_regions))]
max_regions == 2
\* GeminiWrapper.__init__(..., max_retries=2)
max_retries == 2
\* handlers/ocr.py: Camera.__init__(..., analyze_interval=30)
ocr_analyze_interval == 30
\* Analyzer.analyze: if len(response) > 80
LabelLimit == 80
\* Analyzer.analyze: response[:77] + "..."
LabelKeep == 77
\* YOLOTextDetector.detect_text: if len(boxes) < 3 or ...
FewBoxes == 3

\* The clock starts late enough for the first gate check to pass, as
\* time.time() (seconds since 1970) does against last_analysis_time = 0.
StartTime == analyze_interval
MaxTime == StartTime + TimeSpan

Min(a, b) == IF a <= b THEN a ELSE b
Max(a, b) == IF a >= b THEN a ELSE b

(***************************************************************************)
(* Boxes.  A box is <<x1, y1, x2, y2>> in 1/Scale pixels, as the detector  *)
(* returns it (floats); Px(n) is the pixel coordinate n.                   *)
(***************************************************************************)
Px(n) == n * Scale

\* int(c) of Python: truncation towards zero
PyInt(c) == IF c >= 0 THEN c \div Scale ELSE -((-c) \div Scale)

\* the sort key  (r['box'][2] - r['box'][0]) * (r['box'][3] - r['box'][1])
Area(box) == (box[3] - box[1]) * (box[4] - box[2])

\* {"label": "Full Frame", "box": [0, 0, w, h]}
FullFrameBox == <<0, 0, Px(FrameW), Px(FrameH)>>


(***************************************************************************)
(* Region selection (analyzer.py 54-62, app.py 195-202).                   *)
(* sorted(regions, key=area, reverse=True) is a stable sort: regions of    *)
(* equal key keep the order of the input list.  It is computed here as an  *)
(* insertion sort over the positions 1..Len(regions) of the input.         *)
(***************************************************************************)
\* an insertion that puts a region before those of equal area
RECURSIVE InsertByArea_Unstable(_, _, _)
InsertByArea_Unstable(regions, s, i) ==
    IF s = <<>> THEN <<i>>
    ELSE IF Area(regions[Head(s)].box) > Area(regions[i].box)
         THEN <<Head(s)>> \o InsertByArea_Unstable(regions, Tail(s), i)
         ELSE <<i>> \o s

RECURSIVE InsertByArea(_, _, _)
InsertByArea(regions, s, i) ==
    IF s = <<>> THEN <<i>>
    ELSE IF Area(regions[Head(s)].box) >= Area(regions[i].box)
         THEN <<Head(s)>> \o InsertByArea(regions, Tail(s), i)
         ELSE <<i>> \o s

RECURSIVE SortedOrder(_, _)
SortedOrder(regions, n) ==
    IF n = 0 THEN <<>>
    ELSE InsertByArea(regions, SortedOrder(regions, n - 1), n)

\* positions (in the detector's list) of the regions to analyse, in order
SelectedOrder(regions) ==
    SubSeq(SortedOrder(regions, Len(regions)), 1, Min(max_regions, Len(regions)))

regions_to_analyze(regions) ==
    [k \in 1..Len(SelectedOrder(regions)) |-> regions[SelectedOrder(regions)[k]]]

(***************************************************************************)
(* The crop rectangle of a region, in pixels.                              *)
(***************************************************************************)
\* analyzer.py 71-78: the box widened by the margin, cut to the frame
AnalyzerCrop(box) ==
    << Max(0, PyInt(box[1]) - margin), Max(0, PyInt(box[2]) - margin),
       Min(FrameW, PyInt(box[3]) + margin), Min(FrameH, PyInt(box[4]) + margin) >>

\* a crop that is not cut to the frame
RegionCrop_Unclamped(box) ==
    << PyInt(box[1]), PyInt(box[2]), PyInt(box[3]), PyInt(box[4]) >>

\* app.py 56-63: the box cut to the frame
RegionCrop(box) ==
    << Max(0, PyInt(box[1])), Max(0, PyInt(box[2])),
       Min(FrameW, PyInt(box[3])), Min(FrameH, PyInt(box[4])) >>

\* "if x2 <= x1 or y2 <= y1: ... continue / return None"
InvalidCrop(c) == c[3] <= c[1] \/ c[4] <= c[2]

(***************************************************************************)
(* What one describer call (llm.analyze_image) gives its caller:           *)
(*   "text"   a description                                                *)
(*   "error"  a string that starts with "Error:"                           *)
(*   "raise"  an exception in the region's try block                       *)
(***************************************************************************)
DescOutcomes == {"text", "error", "raise"}

(***************************************************************************)
(* Detector outputs.                                                       *)
(***************************************************************************)
\* boxes a detector may report
Boxes ==
    { FullFrameBox,
      << Px(10), Px(10), Px(20), Px(20) >>,          \* area 100
      << Px(10), Px(10), Px(20), Px(15) >>,          \* area  50
      << Px(0),  Px(0),  Px(20), Px(10) >>,          \* area 200
      << Px(20), Px(0),  Px(25), Px(20) >>,          \* area 100 again
      << Px(15), Px(5),  Px(15), Px(25) >>,          \* zero width
      << Px(30), Px(30), Px(20), Px(20) >>,          \* x2 < x1 and y2 < y1
      << Px(FrameW + 20), Px(0), Px(FrameW + 40), Px(10) >>,  \* off the frame
      << Px(30), Px(30), Px(FrameW + 10), Px(FrameH + 10) >>, \* partly off
      << Px(10) + 1, Px(10) + 1, Px(30) + 1, Px(30) + 1 >> }  \* fractional

Region(box) == [box |-> box]

\* every list of at most n regions over the boxes B
RegionLists(B, n) ==
    UNION { [1..k -> {Region(b) : b \in B}] : k \in 0..n }

\* every list a detector may return
AllDetections == RegionLists(Boxes, MaxDetections)

\* the lists the capture loop's passes and the server's requests see
FewDetections ==
    { <<>>,
      << Region(FullFrameBox) >>,
      << Region(<<Px(10), Px(10), Px(20), Px(20)>>),
         Region(<<Px(FrameW + 20), Px(0), Px(FrameW + 40), Px(10)>>) >> }

(***************************************************************************)
(* State.                                                                  *)
(***************************************************************************)
VARIABLES
    \* ---- handlers/camera.py: Camera ----
    now,                 \* time.time()
    analyzing,           \* Camera.analyzing
    last_analysis_time,  \* Camera.last_analysis_time
    results,             \* Camera.results: [pass, items], pass names the list object
    results_lock,        \* Camera.results_lock: 0 free, else the thread holding it
    save_frames,         \* Camera.save_frames
    spc,                 \* where Camera.stream is
    current_time,        \* stream's local current_time
    current_results,     \* process_frame_for_display's local current_results
    npass,               \* analysis passes dispatched so far
    wk,                  \* the Analyzer threads, one per pass
    completed,           \* (history) the batch of the pass that completed last
    \* ---- app.py: the Flask server ----
    is_analyzing,        \* the module's global is_analyzing
    rq,                  \* the threads serving POST /process_image
    \* ---- handlers/llm.py: GeminiWrapper ----
    llm,                 \* one analyze_image call and its retries
    \* ---- handlers/analyzer.py: the result built for one response ----
    lab,                 \* a describer response and the result made of it
    \* ---- handlers/ocr.py: Camera, with handlers/display.py: Display ----
    ocr,                 \* the camera, its loop, its Analyzer threads, its display
    \* ---- handlers/detector.py: YOLOTextDetector ----
    det                  \* one detect_text call

camVars == << now, analyzing, last_analysis_time, results, results_lock,
              save_frames, spc, current_time, current_results, npass, wk,
              completed >>

appVars == << is_analyzing, rq >>

llmVars == << llm >>

labVars == << lab >>

ocrVars == << ocr >>

detVars == << det >>

vars == << camVars, appVars, llmVars, labVars, ocrVars, detVars >>

\* what each program leaves alone: the capture loop, the server and the
\* describer run apart from each other
notCam == << appVars, llmVars, labVars, ocrVars, detVars >>
notApp == << camVars, llmVars, labVars, ocrVars, detVars >>
notLlm == << camVars, appVars, labVars, ocrVars, detVars >>
notLab == << camVars, appVars, llmVars, ocrVars, detVars >>
notOcr == << camVars, appVars, llmVars, labVars, detVars >>
notDet == << camVars, appVars, llmVars, labVars, ocrVars >>

Passes == 1..MaxPasses
\* results_lock's value while the capture loop's thread holds it
StreamThread == MaxPasses + 1

NoResults == [pass |-> 0, items |-> <<>>]

(***************************************************************************)
(* An Analyzer thread.  pc is its place in Analyzer.analyze and in the     *)
(* callback Camera.on_analysis_complete; regions, idx and batch are        *)
(* regions_to_analyze, the loop index and enhanced_results; site is the    *)
(* line of analyze that called the callback.  The other fields record      *)
(* history: calls and dcalls count the calls of the callback and of the    *)
(* describer, cleared tells that the callback has reset the flag,          *)
(* t_complete is the time the callback read from time.time(), cands is     *)
(* the list the detector returned and outs what became of each selected    *)
(* region ("invalid", or the describer call's outcome).                    *)
(***************************************************************************)
NewWorker ==
    [ pc |-> "new", regions |-> <<>>, idx |-> 0, batch |-> <<>>, site |-> 0,
      calls |-> 0, dcalls |-> 0, cleared |-> FALSE, t_complete |-> 0,
      cands |-> <<>>, outs |-> <<>> ]

InitCamera ==
    /\ now = StartTime
    /\ analyzing = FALSE
    /\ last_analysis_time = 0
    /\ results = NoResults
    /\ results_lock = 0
    /\ save_frames \in BOOLEAN
    /\ spc = "top"
    /\ current_time = 0
    /\ current_results = NoResults
    /\ npass = 0
    /\ wk = [p \in Passes |-> NewWorker]
    /\ completed = NoResults

\* time passes
Tick ==
    /\ now < MaxTime
    /\ now' = now + 1
    /\ UNCHANGED notCam
    /\ UNCHANGED << completed, analyzing, last_analysis_time, results, results_lock,
                    save_frames, spc, current_time, current_results, npass, wk >>

(***************************************************************************)
(* Camera.stream (camera.py 153-178), one action per shared access.        *)
(***************************************************************************)
\* 156-163: ret, frame = self.cap.read(); current_time = time.time()
SCapture ==
    /\ spc = "top"
    /\ \/ UNCHANGED << spc, current_time >>       \* not ret: sleep, continue
       \/ /\ current_time' = now
          /\ spc' = "gate_time"
    /\ UNCHANGED notCam
    /\ UNCHANGED << completed, now, analyzing, last_analysis_time, results, results_lock,
                    save_frames, current_results, npass, wk >>

\* 164, left operand: current_time - self.last_analysis_time >= interval
SGateTime ==
    /\ spc = "gate_time"
    /\ spc' = IF current_time - last_analysis_time >= analyze_interval
              THEN "gate_flag" ELSE "display"
    /\ UNCHANGED notCam
    /\ UNCHANGED << completed, now, analyzing, last_analysis_time, results, results_lock,
                    save_frames, current_time, current_results, npass, wk >>

\* a gate that never looks at the flag
SGateFlag_Blind ==
    /\ spc = "gate_flag"
    /\ spc' = "dispatch"
    /\ UNCHANGED notCam
    /\ UNCHANGED << completed, now, analyzing, last_analysis_time, results, results_lock,
                    save_frames, current_time, current_results, npass, wk >>

\* 164, right operand: not self.analyzing
SGateFlag ==
    /\ spc = "gate_flag"
    /\ spc' = IF ~analyzing THEN "dispatch" ELSE "display"
    /\ UNCHANGED notCam
    /\ UNCHANGED << completed, now, analyzing, last_analysis_time, results, results_lock,
                    save_frames, current_time, current_results, npass, wk >>

\* 166, 54-60: analyze_frame sets the flag and builds the Analyzer
SAnalyzeFrame ==
    /\ spc = "dispatch"
    /\ npass < MaxPasses
    /\ analyzing' = TRUE
    /\ npass' = npass + 1
    /\ wk' = [wk EXCEPT ![npass + 1].pc = "built"]
    /\ spc' = "start"
    /\ UNCHANGED notCam
    /\ UNCHANGED << completed, now, last_analysis_time, results, results_lock,
                    save_frames, current_time, current_results >>

\* a dispatch that waits for the pass to end (start, then join)
SStart_Join ==
    /\ spc = "start"
    /\ IF wk[npass].pc = "built"
       THEN /\ wk' = [wk EXCEPT ![npass].pc = "detect"]
            /\ UNCHANGED spc
       ELSE /\ wk[npass].pc = "done"
            /\ spc' = "display"
            /\ UNCHANGED wk
    /\ UNCHANGED notCam
    /\ UNCHANGED << completed, now, analyzing, last_analysis_time, results,
                    results_lock, save_frames, current_time, current_results, npass >>

\* 61: analyzer.start(); a thread that cannot be started raises, and the
\* loop's handler (176-178) sleeps and goes on
SStart ==
    /\ spc = "start"
    /\ \/ /\ wk' = [wk EXCEPT ![npass].pc = "detect"]
          /\ spc' = "display"
       \/ /\ wk' = [wk EXCEPT ![npass].pc = "nostart"]
          /\ spc' = "top"
    /\ UNCHANGED notCam
    /\ UNCHANGED << completed, now, analyzing, last_analysis_time, results, results_lock,
                    save_frames, current_time, current_results, npass >>

\* 169-174: the frame is drawn and saved only when frames are saved
SDisplay ==
    /\ spc = "display"
    /\ spc' = IF save_frames /\ results.items # <<>>
                 /\ current_time - last_analysis_time < 2
              THEN "disp_acquire" ELSE "top"
    /\ UNCHANGED notCam
    /\ UNCHANGED << completed, now, analyzing, last_analysis_time, results, results_lock,
                    save_frames, current_time, current_results, npass, wk >>

\* 85: with self.results_lock
SDispAcquire ==
    /\ spc = "disp_acquire"
    /\ results_lock = 0
    /\ results_lock' = StreamThread
    /\ spc' = "disp_copy"
    /\ UNCHANGED notCam
    /\ UNCHANGED << completed, now, analyzing, last_analysis_time, results,
                    save_frames, current_time, current_results, npass, wk >>

\* 86: current_results = self.results.copy() if self.results else []
SDispCopy ==
    /\ spc = "disp_copy"
    /\ current_results' = results
    /\ results_lock' = 0
    /\ spc' = "disp_status"
    /\ UNCHANGED notCam
    /\ UNCHANGED << completed, now, analyzing, last_analysis_time, results,
                    save_frames, current_time, npass, wk >>

\* 88-127, 171, 174: draw, status line, save, sleep
SDispStatus ==
    /\ spc = "disp_status"
    /\ current_results' = NoResults
    /\ spc' = "top"
    /\ UNCHANGED notCam
    /\ UNCHANGED << completed, now, analyzing, last_analysis_time, results, results_lock,
                    save_frames, current_time, npass, wk >>

\* 153-178: one step of the capture loop's thread
stream ==
    \/ SCapture
    \/ SGateTime
    \/ SGateFlag
    \/ SAnalyzeFrame
    \/ SStart
    \/ SDisplay
    \/ SDispAcquire
    \/ SDispCopy
    \/ SDispStatus

(***************************************************************************)
(* Analyzer.analyze (analyzer.py 38-140), run by Analyzer.run on the       *)
(* thread of pass w.                                                       *)
(***************************************************************************)
\* the result appended for region number idx (1-based here, idx - 1 there)
EnhancedResult(region, idx) ==
    [box |-> region.box, region_index |-> idx - 1]

\* a detector failure that ends the pass without the callback
WDetect_Silent(w, D) ==
    /\ wk[w].pc = "detect"
    /\ \/ wk' = [wk EXCEPT ![w].pc = "done"]
       \/ \E regions \in D :
            wk' = [wk EXCEPT ![w].regions = regions_to_analyze(regions),
                             ![w].cands = regions,
                             ![w].idx = 1, ![w].pc = "region"]
    /\ UNCHANGED notCam
    /\ UNCHANGED << completed, now, analyzing, last_analysis_time, results, results_lock,
                    save_frames, spc, current_time, current_results, npass >>

\* 40-62: detect, then either report nothing (45-50), or select the regions;
\* an exception on the way is caught at 137-140, which reports nothing
WDetect(w, D) ==
    /\ wk[w].pc = "detect"
    /\ \/ wk' = [wk EXCEPT ![w].site = 140, ![w].batch = <<>>,
                           ![w].pc = "cb_acquire"]
       \/ \E regions \in D :
            IF regions = <<>>
            THEN wk' = [wk EXCEPT ![w].site = 49, ![w].batch = <<>>,
                                  ![w].pc = "cb_acquire"]
            ELSE wk' = [wk EXCEPT ![w].regions = regions_to_analyze(regions),
                                  ![w].cands = regions,
                                  ![w].idx = 1, ![w].pc = "region"]
    /\ UNCHANGED notCam
    /\ UNCHANGED << completed, now, analyzing, last_analysis_time, results, results_lock,
                    save_frames, spc, current_time, current_results, npass >>

\* a region loop that takes the results lock before it calls the describer
WRegion_Locked(w) ==
    /\ wk[w].pc = "region"
    /\ IF wk[w].idx > Len(wk[w].regions)
       THEN /\ wk' = [wk EXCEPT ![w].site = 135, ![w].pc = "cb_acquire"]
            /\ results_lock' = IF results_lock = w THEN 0 ELSE results_lock
       ELSE IF InvalidCrop(AnalyzerCrop(wk[w].regions[wk[w].idx].box))
            THEN /\ wk' = [wk EXCEPT ![w].idx = @ + 1,
                                     ![w].outs = Append(@, "invalid")]
                 /\ UNCHANGED results_lock
            ELSE /\ results_lock \in {0, w}
                 /\ results_lock' = w
                 /\ wk' = [wk EXCEPT ![w].dcalls = @ + 1, ![w].pc = "describing"]
    /\ UNCHANGED notCam
    /\ UNCHANGED << completed, now, analyzing, last_analysis_time, results,
                    save_frames, spc, current_time, current_results, npass >>

\* 65-92 and 132-135: the head of the region loop.  After the last region
\* the batch is reported; a region whose crop is invalid is skipped; any
\* other region is sent to the describer.
WRegion(w) ==
    /\ wk[w].pc = "region"
    /\ IF wk[w].idx > Len(wk[w].regions)
       THEN wk' = [wk EXCEPT ![w].site = 135, ![w].pc = "cb_acquire"]
       ELSE IF InvalidCrop(AnalyzerCrop(wk[w].regions[wk[w].idx].box))
            THEN wk' = [wk EXCEPT ![w].idx = @ + 1,
                                  ![w].outs = Append(@, "invalid")]
            ELSE wk' = [wk EXCEPT ![w].dcalls = @ + 1, ![w].pc = "describing"]
    /\ UNCHANGED notCam
    /\ UNCHANGED << completed, now, analyzing, last_analysis_time, results, results_lock,
                    save_frames, spc, current_time, current_results, npass >>

\* a region failure that ends the loop
WDescribe_Abort(w) ==
    /\ wk[w].pc = "describing"
    /\ \E out \in DescOutcomes :
         wk' = [wk EXCEPT
                  ![w].batch = IF out = "text"
                               THEN Append(@, EnhancedResult(
                                        wk[w].regions[wk[w].idx], wk[w].idx))
                               ELSE @,
                  ![w].outs = Append(@, out),
                  ![w].idx = IF out = "text" THEN @ + 1 ELSE Len(wk[w].regions) + 1,
                  ![w].pc = "region"]
    /\ UNCHANGED notCam
    /\ UNCHANGED << completed, now, analyzing, last_analysis_time, results, results_lock,
                    save_frames, spc, current_time, current_results, npass >>

\* a region loop that submits a region again after a failure
WDescribe_Retry(w) ==
    /\ wk[w].pc = "describing"
    /\ \E out \in DescOutcomes :
         wk' = [wk EXCEPT
                  ![w].batch = IF out = "text"
                               THEN Append(@, EnhancedResult(
                                        wk[w].regions[wk[w].idx], wk[w].idx))
                               ELSE @,
                  ![w].outs = IF out = "text" \/ wk[w].dcalls > max_regions
                              THEN Append(@, out) ELSE @,
                  ![w].idx = IF out = "text" \/ wk[w].dcalls > max_regions
                             THEN @ + 1 ELSE @,
                  ![w].pc = "region"]
    /\ UNCHANGED notCam
    /\ UNCHANGED << completed, now, analyzing, last_analysis_time, results, results_lock,
                    save_frames, spc, current_time, current_results, npass >>

\* 94-130: the describer call returns; only a description is appended
WDescribe(w) ==
    /\ wk[w].pc = "describing"
    /\ \E out \in DescOutcomes :
         wk' = [wk EXCEPT
                  ![w].batch = IF out = "text"
                               THEN Append(@, EnhancedResult(
                                        wk[w].regions[wk[w].idx], wk[w].idx))
                               ELSE @,
                  ![w].outs = Append(@, out),
                  ![w].idx = @ + 1,
                  ![w].pc = "region"]
    /\ UNCHANGED notCam
    /\ UNCHANGED << completed, now, analyzing, last_analysis_time, results, results_lock,
                    save_frames, spc, current_time, current_results, npass >>

(***************************************************************************)
(* Camera.on_analysis_complete (camera.py 63-68), on the Analyzer thread.  *)
(***************************************************************************)
\* 65: with self.results_lock
WCbAcquire(w) ==
    /\ wk[w].pc = "cb_acquire"
    /\ results_lock = 0
    /\ results_lock' = w
    /\ wk' = [wk EXCEPT ![w].calls = @ + 1, ![w].pc = "cb_results"]
    /\ UNCHANGED notCam
    /\ UNCHANGED << completed, now, analyzing, last_analysis_time, results,
                    save_frames, spc, current_time, current_results, npass >>

\* a callback that stores the batch without its last result
WCbResults_Partial(w) ==
    /\ wk[w].pc = "cb_results"
    /\ results' = [pass |-> w,
                   items |-> SubSeq(wk[w].batch, 1, Max(0, Len(wk[w].batch) - 1))]
    /\ wk' = [wk EXCEPT ![w].pc = "cb_flag"]
    /\ UNCHANGED notCam
    /\ UNCHANGED << completed, now, analyzing, last_analysis_time, results_lock,
                    save_frames, spc, current_time, current_results, npass >>

\* 66: self.results = results
WCbResults(w) ==
    /\ wk[w].pc = "cb_results"
    /\ results' = [pass |-> w, items |-> wk[w].batch]
    /\ wk' = [wk EXCEPT ![w].pc = "cb_flag"]
    /\ UNCHANGED notCam
    /\ UNCHANGED << completed, now, analyzing, last_analysis_time, results_lock,
                    save_frames, spc, current_time, current_results, npass >>

\* 67: self.analyzing = False
WCbFlag(w) ==
    /\ wk[w].pc = "cb_flag"
    /\ analyzing' = FALSE
    /\ wk' = [wk EXCEPT ![w].cleared = TRUE, ![w].pc = "cb_time"]
    /\ UNCHANGED notCam
    /\ UNCHANGED << completed, now, last_analysis_time, results, results_lock,
                    save_frames, spc, current_time, current_results, npass >>

\* 68: self.last_analysis_time = time.time()
WCbTime(w) ==
    /\ wk[w].pc = "cb_time"
    /\ last_analysis_time' = now
    /\ wk' = [wk EXCEPT ![w].t_complete = now, ![w].pc = "cb_release"]
    /\ UNCHANGED notCam
    /\ UNCHANGED << completed, now, analyzing, results, results_lock,
                    save_frames, spc, current_time, current_results, npass >>

\* where analyze goes on after the callback returns: 50 returns, 135 and
\* 140 are the last statements
AfterCallback(site) == "done"

\* the with block ends and the pass is complete; 70-75 log; the thread's
\* locals are dropped when it is done
WCbRelease(w) ==
    /\ wk[w].pc = "cb_release"
    /\ results_lock' = 0
    /\ completed' = [pass |-> w, items |-> wk[w].batch]
    /\ wk' = [wk EXCEPT ![w].pc = AfterCallback(wk[w].site),
                        ![w].regions = <<>>, ![w].idx = 0, ![w].batch = <<>>,
                        ![w].site = 0, ![w].dcalls = 0, ![w].t_complete = 0,
                        ![w].cands = <<>>, ![w].outs = <<>>]
    /\ UNCHANGED notCam
    /\ UNCHANGED << now, analyzing, last_analysis_time, results,
                    save_frames, spc, current_time, current_results, npass >>


(***************************************************************************)
(* app.py: POST /process_image.  app.run(..., threaded=True) serves every  *)
(* request on a thread of its own; rq[h] is the thread of request h.       *)
(* pc is its place in process_image; body is what the request carries;    *)
(* regions, idx and detections are regions_to_analyze, the loop index and  *)
(* detections; status is the HTTP status of the response.  The other       *)
(* fields record history: det_calls, dcalls and fb_calls count the calls   *)
(* of the detector, of the describer, and of the describer on the whole    *)
(* frame (222); sent lists the crop of every describer call; cands is the  *)
(* candidate list that was sorted, det_empty tells that the detector       *)
(* returned [], outs what became of each selected region and fb_out what   *)
(* the whole-frame call returned.                                          *)
(***************************************************************************)
Handlers == 1..NHandlers

NewRequest ==
    [ pc |-> "idle", body |-> "none", regions |-> <<>>, idx |-> 0,
      detections |-> <<>>, status |-> 0,
      det_calls |-> 0, dcalls |-> 0, fb_calls |-> 0, sent |-> <<>>,
      cands |-> <<>>, det_empty |-> FALSE, outs |-> <<>>, fb_out |-> "none" ]

\* request bodies: an image that decodes; JSON without 'image'; an image
\* that does not decode; a body request.json cannot parse
Bodies == {"image", "nofield", "undecodable", "notjson"}

InitApp ==
    /\ is_analyzing = FALSE
    /\ rq = [h \in Handlers |-> NewRequest]

\* the whole frame as a crop rectangle, in pixels
WholeFrame == << 0, 0, FrameW, FrameH >>

\* 106-114: the crop as fractions <<numerator, denominator>> of the frame
BoundingBox(c) ==
    [ x |-> << c[1], FrameW >>, y |-> << c[2], FrameH >>,
      width |-> << c[3] - c[1], FrameW >>, height |-> << c[4] - c[2], FrameH >> ]

\* 117-124: the detection of region number idx (1-based here); full_text
\* is the response of describer call number call
Detection(box, idx, call) ==
    [ id |-> idx, full_text |-> call, boundingBox |-> BoundingBox(RegionCrop(box)) ]

\* 232-238: the detection made of the whole-frame response
FrameDetection(call) ==
    [ id |-> 1, full_text |-> call,
      boundingBox |-> [ x |-> <<1, 10>>, y |-> <<1, 10>>,
                        width |-> <<8, 10>>, height |-> <<8, 10>> ] ]

\* a request arrives
RArrive(h) ==
    /\ rq[h].pc = "idle"
    /\ \E b \in Bodies :
         rq' = [rq EXCEPT ![h] = [NewRequest EXCEPT !.pc = "check", !.body = b]]
    /\ UNCHANGED is_analyzing
    /\ UNCHANGED notApp

\* a busy check that does not look at the flag
RCheck_Open(h) ==
    /\ rq[h].pc = "check"
    /\ rq' = [rq EXCEPT ![h].pc = "set"]
    /\ UNCHANGED is_analyzing
    /\ UNCHANGED notApp

\* 138-142: if is_analyzing: return 429 (through the finally clause)
RCheck(h) ==
    /\ rq[h].pc = "check"
    /\ IF is_analyzing
       THEN rq' = [rq EXCEPT ![h].status = 429, ![h].pc = "finally"]
       ELSE rq' = [rq EXCEPT ![h].pc = "set"]
    /\ UNCHANGED is_analyzing
    /\ UNCHANGED notApp

\* 144: is_analyzing = True
RSet(h) ==
    /\ rq[h].pc = "set"
    /\ is_analyzing' = TRUE
    /\ rq' = [rq EXCEPT ![h].pc = "parse"]
    /\ UNCHANGED notApp

\* a parse step that lets an image that does not decode through
RParse_Lenient(h) ==
    /\ rq[h].pc = "parse"
    /\ IF rq[h].body = "notjson"
       THEN /\ rq' = [rq EXCEPT ![h].status = 500, ![h].pc = "finally"]
            /\ UNCHANGED is_analyzing
       ELSE IF rq[h].body = "nofield"
       THEN /\ is_analyzing' = FALSE
            /\ rq' = [rq EXCEPT ![h].status = 400, ![h].pc = "finally"]
       ELSE /\ rq' = [rq EXCEPT ![h].pc = "detect"]
            /\ UNCHANGED is_analyzing
    /\ UNCHANGED notApp

\* 151-177: request.json raises on a body it cannot parse, which the
\* handler at 251-256 answers 500; a missing field or an image that does
\* not decode resets the flag and is answered 400
RParse(h) ==
    /\ rq[h].pc = "parse"
    /\ IF rq[h].body = "notjson"
       THEN /\ rq' = [rq EXCEPT ![h].status = 500, ![h].pc = "finally"]
            /\ UNCHANGED is_analyzing
       ELSE IF rq[h].body # "image"
       THEN /\ is_analyzing' = FALSE
            /\ rq' = [rq EXCEPT ![h].status = 400, ![h].pc = "finally"]
       ELSE /\ rq' = [rq EXCEPT ![h].pc = "detect"]
            /\ UNCHANGED is_analyzing
    /\ UNCHANGED notApp

\* a detection step that keeps an empty list empty
RDetect_NoFullFrame(h, D) ==
    /\ rq[h].pc = "detect"
    /\ \E detected \in D :
         rq' = [rq EXCEPT ![h].det_calls = @ + 1,
                          ![h].det_empty = (detected = <<>>),
                          ![h].cands = detected,
                          ![h].regions = regions_to_analyze(detected),
                          ![h].idx = 1, ![h].pc = "region"]
    /\ UNCHANGED is_analyzing
    /\ UNCHANGED notApp

\* 185-202: detect; with no region the whole frame is the only candidate;
\* sort and select
RDetect(h, D) ==
    /\ rq[h].pc = "detect"
    /\ \E detected \in D :
         LET regions == IF detected = <<>> THEN << Region(FullFrameBox) >>
                        ELSE detected
         IN  rq' = [rq EXCEPT ![h].det_calls = @ + 1,
                              ![h].det_empty = (detected = <<>>),
                              ![h].cands = regions,
                              ![h].regions = regions_to_analyze(regions),
                              ![h].idx = 1, ![h].pc = "region"]
    /\ UNCHANGED is_analyzing
    /\ UNCHANGED notApp

\* a loop end that asks for the whole frame whatever was detected
RRegion_AlwaysFallback(h) ==
    /\ rq[h].pc = "region"
    /\ LET r == rq[h] IN
       IF r.idx > Len(r.regions)
       THEN rq' = [rq EXCEPT ![h].fb_calls = @ + 1,
                             ![h].dcalls = @ + 1,
                             ![h].sent = Append(@, WholeFrame),
                             ![h].pc = "fallback"]
       ELSE IF InvalidCrop(RegionCrop(r.regions[r.idx].box))
            THEN rq' = [rq EXCEPT ![h].idx = @ + 1,
                                  ![h].outs = Append(@, "invalid")]
            ELSE rq' = [rq EXCEPT ![h].dcalls = @ + 1,
                                  ![h].sent = Append(@, RegionCrop(r.regions[r.idx].box)),
                                  ![h].pc = "describing"]
    /\ UNCHANGED is_analyzing
    /\ UNCHANGED notApp

\* 206-222 and analyze_region 56-81: the head of the region loop.  After
\* the last region the whole frame is sent to the describer if there is no
\* detection; a region whose crop is invalid gives None; any other region
\* is sent to the describer.
RRegion(h) ==
    /\ rq[h].pc = "region"
    /\ LET r == rq[h] IN
       IF r.idx > Len(r.regions)
       THEN IF r.detections = <<>>
            THEN rq' = [rq EXCEPT ![h].fb_calls = @ + 1,
                                  ![h].dcalls = @ + 1,
                                  ![h].sent = Append(@, WholeFrame),
                                  ![h].pc = "fallback"]
            ELSE rq' = [rq EXCEPT ![h].pc = "respond"]
       ELSE IF InvalidCrop(RegionCrop(r.regions[r.idx].box))
            THEN rq' = [rq EXCEPT ![h].idx = @ + 1,
                                  ![h].outs = Append(@, "invalid")]
            ELSE rq' = [rq EXCEPT ![h].dcalls = @ + 1,
                                  ![h].sent = Append(@, RegionCrop(r.regions[r.idx].box)),
                                  ![h].pc = "describing"]
    /\ UNCHANGED is_analyzing
    /\ UNCHANGED notApp

\* analyze_region 81-128, 211-212: the describer call returns; a
\* description gives a detection, anything else None
RDescribe(h) ==
    /\ rq[h].pc = "describing"
    /\ \E out \in DescOutcomes :
         rq' = [rq EXCEPT
                  ![h].detections =
                       IF out = "text"
                       THEN Append(@, Detection(rq[h].regions[rq[h].idx].box,
                                                rq[h].idx, rq[h].dcalls))
                       ELSE @,
                  ![h].outs = Append(@, out),
                  ![h].idx = @ + 1,
                  ![h].pc = "region"]
    /\ UNCHANGED is_analyzing
    /\ UNCHANGED notApp

\* a whole-frame call whose failure escapes to the handler at 251-256
RFallback_Uncaught(h) ==
    /\ rq[h].pc = "fallback"
    /\ \E out \in {"text", "error"} :
         rq' = [rq EXCEPT
                  ![h].detections = IF out = "text"
                                    THEN << FrameDetection(rq[h].dcalls) >>
                                    ELSE @,
                  ![h].fb_out = out,
                  ![h].status = IF out = "text" THEN @ ELSE 500,
                  ![h].pc = IF out = "text" THEN "respond" ELSE "finally"]
    /\ UNCHANGED is_analyzing
    /\ UNCHANGED notApp

\* 222-238: the whole-frame call returns a string (analyze_image returns
\* one on every path); a description gives the only detection
RFallback(h) ==
    /\ rq[h].pc = "fallback"
    /\ \E out \in {"text", "error"} :
         rq' = [rq EXCEPT
                  ![h].detections = IF out = "text"
                                    THEN << FrameDetection(rq[h].dcalls) >>
                                    ELSE @,
                  ![h].fb_out = out,
                  ![h].pc = "respond"]
    /\ UNCHANGED is_analyzing
    /\ UNCHANGED notApp

\* 240-249: return the detections
RRespond(h) ==
    /\ rq[h].pc = "respond"
    /\ rq' = [rq EXCEPT ![h].status = 200, ![h].pc = "finally"]
    /\ UNCHANGED is_analyzing
    /\ UNCHANGED notApp

\* a return with no finally clause: the flag stays as the body left it
RFinally_NoReset(h) ==
    /\ rq[h].pc = "finally"
    /\ rq' = [rq EXCEPT ![h] = NewRequest]
    /\ UNCHANGED is_analyzing
    /\ UNCHANGED notApp

\* 257-258: finally: is_analyzing = False; the response leaves and the
\* thread ends
RFinally(h) ==
    /\ rq[h].pc = "finally"
    /\ is_analyzing' = FALSE
    /\ rq' = [rq EXCEPT ![h] = NewRequest]
    /\ UNCHANGED notApp

(***************************************************************************)
(* handlers/llm.py: GeminiWrapper.analyze_image.                           *)
(***************************************************************************)
(* llm is the wrapper and the call in progress: max_retries is            *)
(* self.max_retries, retry_count the parameter of the innermost call, pc   *)
(* its place, result what the outermost call returned.  The other fields   *)
(* record history: calls counts the calls from outside, attempts the       *)
(* generate_content requests of the current call and failures those that   *)
(* raised, depth the self-calls on the stack, waits the sleeps.            *)
(***************************************************************************)
IdleLlm(m) ==
    [ pc |-> "idle", max_retries |-> m, retry_count |-> 0, result |-> "none",
      calls |-> 0, attempts |-> 0, failures |-> 0, depth |-> 0, waits |-> <<>> ]

\* 11-15: GeminiWrapper(api_key, model, max_retries=2)
InitLlm == \E m \in 0..RetryCap : llm = IdleLlm(m)

\* 59: analyze_image(image, prompt) is called from outside
LCall ==
    /\ llm.pc \in {"idle", "returned"}
    /\ llm.calls < MaxCalls
    /\ llm' = [IdleLlm(llm.max_retries) EXCEPT !.pc = "request",
                                               !.calls = llm.calls + 1]
    /\ UNCHANGED notLlm

\* a request outside any try block: its exception reaches the caller
LRequest_Uncaught ==
    /\ llm.pc = "request"
    /\ \/ llm' = [llm EXCEPT !.attempts = @ + 1, !.result = "text",
                              !.pc = "returned"]
       \/ llm' = [llm EXCEPT !.attempts = @ + 1, !.result = "error",
                              !.pc = "returned"]
       \/ llm' = [llm EXCEPT !.attempts = @ + 1, !.failures = @ + 1,
                              !.result = "raise", !.pc = "returned"]
    /\ UNCHANGED notLlm

\* 61-82: the request; a response with text is returned, one without
\* gives an "Error:" string, an exception goes to the handler
LRequest ==
    /\ llm.pc = "request"
    /\ \/ llm' = [llm EXCEPT !.attempts = @ + 1, !.result = "text",
                              !.pc = "returned"]
       \/ llm' = [llm EXCEPT !.attempts = @ + 1, !.result = "error",
                              !.pc = "returned"]
       \/ llm' = [llm EXCEPT !.attempts = @ + 1, !.failures = @ + 1,
                              !.pc = "except"]
    /\ UNCHANGED notLlm

\* a handler that retries once more
LExcept_OneMore ==
    /\ llm.pc = "except"
    /\ IF llm.retry_count <= llm.max_retries
       THEN llm' = [llm EXCEPT !.retry_count = @ + 1,
                               !.waits = Append(@, 2 ^ (llm.retry_count + 1)),
                               !.pc = "sleep"]
       ELSE llm' = [llm EXCEPT !.result = "error", !.pc = "returned"]
    /\ UNCHANGED notLlm

\* a handler that computes the wait before it counts the retry
LExcept_WaitFirst ==
    /\ llm.pc = "except"
    /\ IF llm.retry_count < llm.max_retries
       THEN llm' = [llm EXCEPT !.retry_count = @ + 1,
                               !.waits = Append(@, 2 ^ llm.retry_count),
                               !.pc = "sleep"]
       ELSE llm' = [llm EXCEPT !.result = "error", !.pc = "returned"]
    /\ UNCHANGED notLlm

\* 84-95: the handler: retry while retry_count < self.max_retries, after
\* a sleep of 2 ** retry_count seconds; else return f"Error: {e}"
LExcept ==
    /\ llm.pc = "except"
    /\ IF llm.retry_count < llm.max_retries
       THEN llm' = [llm EXCEPT !.retry_count = @ + 1,
                               !.waits = Append(@, 2 ^ (llm.retry_count + 1)),
                               !.pc = "sleep"]
       ELSE llm' = [llm EXCEPT !.result = "error", !.pc = "returned"]
    /\ UNCHANGED notLlm

\* 92-93: time.sleep(wait_time); return self.analyze_image(..., retry_count)
LSleep ==
    /\ llm.pc = "sleep"
    /\ llm' = [llm EXCEPT !.depth = @ + 1, !.pc = "request"]
    /\ UNCHANGED notLlm

(***************************************************************************)
(* handlers/analyzer.py 102-125: the result made of a describer response.  *)
(* A text is the sequence of its characters' code points.  A response is   *)
(* [text, subject]: subject names the first of the keyword tests at        *)
(* 104-111 that the text passes ("" when it passes none).                  *)
(***************************************************************************)
Subjects == {"", "math", "science", "history", "english"}

\* 103-111: the marker strings as analyzer.py spells them
subject_marker(subject) ==
    CASE subject = "math"    -> << 240, 376, 8220, 32 >>
      [] subject = "science" -> << 240, 376, 8221, 172, 32 >>
      [] subject = "history" -> << 240, 376, 8220, 339, 32 >>
      [] subject = "english" -> << 240, 376, 8220, 353, 32 >>
      [] OTHER               -> << >>

\* the shortest keyword of a subject ("math", "date", ...) has four letters
Responses ==
    { r \in { [text |-> [i \in 1..n |-> 96 + i], subject |-> sj] :
                n \in 0..MaxResponseLen, sj \in Subjects } :
        r.subject = "" \/ Len(r.text) >= 4 }

\* 113-117: the label for display
display_label(response) ==
    IF Len(response.text) > LabelLimit
    THEN subject_marker(response.subject)
           \o SubSeq(response.text, 1, LabelKeep) \o << 46, 46, 46 >>
    ELSE subject_marker(response.subject) \o response.text

NoLabel == [pc |-> "none", response |-> [text |-> <<>>, subject |-> ""],
            label |-> <<>>, full_text |-> <<>>]

\* 94-98: a response that does not start with "Error:" has arrived
InitLabel ==
    \E r \in Responses : lab = [NoLabel EXCEPT !.pc = "response", !.response = r]

\* 113-125: enhanced_result = {"label": display_label, ..., "full_text": response}
MakeLabel ==
    /\ lab.pc = "response"
    /\ lab' = [lab EXCEPT !.label = display_label(lab.response),
                          !.full_text = lab.response.text,
                          !.pc = "result"]
    /\ UNCHANGED notLab

(***************************************************************************)
(* handlers/ocr.py: Camera, the capture loop that draws on a Display       *)
(* (handlers/display.py).  ocr holds the camera's fields (analyzing,       *)
(* last_analysis_time), the clock (now), the loop's place (spc) and its    *)
(* local current_time, the Analyzer threads (wk: each one's place), and    *)
(* the display's fields (results, lock: 0 free, else the thread holding    *)
(* it).  nstart counts the Analyzers built and t_dispatch is the time of   *)
(* the last analyze_frame call (history).                                  *)
(***************************************************************************)
InitOcr ==
    ocr = [ now |-> ocr_analyze_interval, analyzing |-> FALSE,
            last_analysis_time |-> 0, spc |-> "top", current_time |-> 0,
            wk |-> [p \in Passes |-> "new"], nstart |-> 0, t_dispatch |-> 0,
            results |-> NoResults, lock |-> 0 ]

\* time passes
OTick ==
    /\ ocr.now < ocr_analyze_interval + TimeSpan
    /\ ocr' = [ocr EXCEPT !.now = @ + 1]
    /\ UNCHANGED notOcr

\* 54-60: ret, frame = self.cap.read(); current_time = time.time()
OCapture ==
    /\ ocr.spc = "top"
    /\ \/ UNCHANGED ocr                           \* not ret: sleep, continue
       \/ ocr' = [ocr EXCEPT !.current_time = ocr.now, !.spc = "gate_time"]
    /\ UNCHANGED notOcr

\* 61, left operand: current_time - self.last_analysis_time >= interval
OGateTime ==
    /\ ocr.spc = "gate_time"
    /\ ocr' = [ocr EXCEPT !.spc =
                  IF ocr.current_time - ocr.last_analysis_time >= ocr_analyze_interval
                  THEN "gate_flag" ELSE "overlay"]
    /\ UNCHANGED notOcr

\* 61, right operand: not self.analyzing
OGateFlag ==
    /\ ocr.spc = "gate_flag"
    /\ ocr' = [ocr EXCEPT !.spc = IF ~ocr.analyzing THEN "dispatch" ELSE "overlay"]
    /\ UNCHANGED notOcr

\* 62, 36-41: analyze_frame builds an Analyzer and starts it; it leaves
\* self.analyzing and self.last_analysis_time as they are
OAnalyzeFrame ==
    /\ ocr.spc = "dispatch"
    /\ ocr.nstart < MaxPasses
    /\ ocr' = [ocr EXCEPT !.nstart = @ + 1,
                          !.wk[ocr.nstart + 1] = "run",
                          !.t_dispatch = ocr.now,
                          !.spc = "overlay"]
    /\ UNCHANGED notOcr

\* 65, display.py 21: with self.lock
OOverlayAcquire ==
    /\ ocr.spc = "overlay"
    /\ ocr.lock = 0
    /\ ocr' = [ocr EXCEPT !.lock = StreamThread, !.spc = "overlay_draw"]
    /\ UNCHANGED notOcr

\* display.py 22-53, ocr.py 66-71: draw self.results, release the lock,
\* show the frame; ESC ends the loop
OOverlayDraw ==
    /\ ocr.spc = "overlay_draw"
    /\ \/ ocr' = [ocr EXCEPT !.lock = 0, !.spc = "top"]
       \/ ocr' = [ocr EXCEPT !.lock = 0, !.spc = "ended"]
    /\ UNCHANGED notOcr

\* Analyzer.run on the thread of pass p.  setup is called with the prompt
\* where the detector goes (ocr.py 40, analyzer.py 31), so detect_text
\* raises and analyze ends at 137-140 with callback([])
OAnalyze(p) ==
    /\ ocr.wk[p] = "run"
    /\ ocr' = [ocr EXCEPT !.wk[p] = "cb_acquire"]
    /\ UNCHANGED notOcr

\* ocr.py 45, display.py 16: with self.lock
OCbAcquire(p) ==
    /\ ocr.wk[p] = "cb_acquire"
    /\ ocr.lock = 0
    /\ ocr' = [ocr EXCEPT !.lock = p, !.wk[p] = "cb_store"]
    /\ UNCHANGED notOcr

\* display.py 17: self.results = results, and the with block ends
OCbStore(p) ==
    /\ ocr.wk[p] = "cb_store"
    /\ ocr' = [ocr EXCEPT !.results = [pass |-> p, items |-> <<>>],
                          !.lock = 0, !.wk[p] = "cb_flag"]
    /\ UNCHANGED notOcr

\* ocr.py 46: self.analyzing = False
OCbFlag(p) ==
    /\ ocr.wk[p] = "cb_flag"
    /\ ocr' = [ocr EXCEPT !.analyzing = FALSE, !.wk[p] = "done"]
    /\ UNCHANGED notOcr

(***************************************************************************)
(* handlers/detector.py: YOLOTextDetector.detect_text.  det holds          *)
(* self.model ("None" when YOLO(model_name) failed at 10-16), what the     *)
(* inference self.model(frame, conf=0.3) does (raises: it raises; infer:   *)
(* the list of results it returns otherwise, a result being the list of    *)
(* the class names of its boxes), the call's place (pc) and the list it    *)
(* returned (out); caught records that the handler at 63-65 ran (history). *)
(***************************************************************************)
\* result.names[cls] of the boxes; "Book" stands for a name with capitals
ClassNames == {"book", "Book", "dog"}

\* 28-31
text_related_classes ==
    {"person", "book", "tv", "laptop", "cell phone", "keyboard",
     "whiteboard", "screen", "monitor", "document", "paper"}

\* cls_name.lower()
lower(cls_name) == IF cls_name = "Book" THEN "book" ELSE cls_name

\* box.xyxy[0].tolist() of box b of result r: every box has its own place
xyxy(r, b) == << Px(r), Px(b), Px(r + 10), Px(b + 10) >>

\* every list of at most n class names: the boxes of one result
BoxLists(n) == UNION { [1..k -> ClassNames] : k \in 0..n }

\* every list of k results with at most n boxes in all
RECURSIVE ResultLists(_, _)
ResultLists(k, n) ==
    IF k = 0 THEN { << >> }
    ELSE UNION { { << boxes >> \o rest : rest \in ResultLists(k - 1, n - Len(boxes)) } :
                 boxes \in BoxLists(n) }

\* what one inference may return
Inferences == UNION { ResultLists(k, MaxBoxes) : k \in 0..MaxResults }

IdleDetector ==
    [ pc |-> "idle", model |-> "None", raises |-> TRUE, infer |-> << >>,
      caught |-> FALSE, out |-> << >> ]

\* 18: detect_text(frame) is called on a detector whose model loaded or
\* not, for a frame on which the inference raises or returns results
InitDetector ==
    \E model \in {"None", "YOLO"} :
        \/ det = [IdleDetector EXCEPT !.pc = "called", !.model = model]
        \/ \E infer \in Inferences :
              det = [IdleDetector EXCEPT !.pc = "called", !.model = model,
                                         !.raises = FALSE, !.infer = infer]

\* a filter that keeps everything up to and including three boxes
keep_UpToThree(boxes, cls_name) ==
    Len(boxes) <= FewBoxes \/ lower(cls_name) \in text_related_classes

\* 48: if len(boxes) < 3 or cls_name.lower() in text_related_classes
keep(boxes, cls_name) ==
    Len(boxes) < FewBoxes \/ lower(cls_name) \in text_related_classes

\* 49-53: {"label": f"{cls_name} (...)", "box": [x1, y1, x2, y2], ...}
detection(inferred, r, b) == [label |-> inferred[r][b], box |-> xyxy(r, b)]

\* 36-54: the detections appended from result r, box b on, in loop
\* order; inferred is the list named results at 25
RECURSIVE detections_from(_, _, _)
detections_from(inferred, r, b) ==
    IF r > Len(inferred) THEN << >>
    ELSE IF b > Len(inferred[r]) THEN detections_from(inferred, r + 1, 1)
    ELSE (IF keep(inferred[r], inferred[r][b])
          THEN << detection(inferred, r, b) >> ELSE << >>)
           \o detections_from(inferred, r, b + 1)

\* 20-21: if self.model is None: return []
DModel ==
    /\ det.pc = "called"
    /\ det' = IF det.model = "None"
              THEN [det EXCEPT !.out = << >>, !.pc = "returned"]
              ELSE [det EXCEPT !.pc = "try"]
    /\ UNCHANGED notDet

\* 25: results = self.model(frame, conf=0.3), which may raise
DInfer ==
    /\ det.pc = "try"
    /\ det' = [det EXCEPT !.pc = IF det.raises THEN "except" ELSE "convert"]
    /\ UNCHANGED notDet

\* 34-62: the loops over results and boxes, the full-frame list when
\* nothing was kept, and the return; reading a box may raise
DConvert ==
    /\ det.pc = "convert"
    /\ \/ LET detections == detections_from(det.infer, 1, 1)
          IN  det' = [det EXCEPT
                        !.out = IF detections = << >>
                                THEN << [label |-> "Full Frame",
                                         box |-> FullFrameBox] >>
                                ELSE detections,
                        !.pc = "returned"]
       \/ det' = [det EXCEPT !.pc = "except"]
    /\ UNCHANGED notDet

\* 63-65: except Exception: return []
DExcept ==
    /\ det.pc = "except"
    /\ det' = [det EXCEPT !.caught = TRUE, !.out = << >>, !.pc = "returned"]
    /\ UNCHANGED notDet

(***************************************************************************)
(* The capture loop with its Analyzer threads.                             *)
(***************************************************************************)
\* the wrapper as app.py 34 builds it: GeminiWrapper(api_key)
Init ==
    InitCamera /\ InitApp /\ llm = IdleLlm(max_retries) /\ lab = NoLabel
        /\ InitOcr /\ det = IdleDetector

Next ==
    \/ Tick
    \/ SCapture
    \/ SGateTime
    \/ SGateFlag
    \/ SAnalyzeFrame
    \/ SStart
    \/ SDisplay
    \/ SDispAcquire
    \/ SDispCopy
    \/ SDispStatus
    \/ \E w \in Passes :
         \/ WDetect(w, FewDetections)
         \/ WRegion(w)
         \/ WDescribe(w)
         \/ WCbAcquire(w)
         \/ WCbResults(w)
         \/ WCbFlag(w)
         \/ WCbTime(w)
         \/ WCbRelease(w)

Spec == Init /\ [][Next]_vars

\* one step of the Analyzer thread of pass w, the lock apart
analyzer(w) ==
    \/ WDetect(w, FewDetections)
    \/ WRegion(w)
    \/ WDescribe(w)
    \/ WCbResults(w)
    \/ WCbFlag(w)
    \/ WCbTime(w)
    \/ WCbRelease(w)

\* The same program when every thread that can run does run, every
\* detector and describer call returns, and a thread that waits for
\* results_lock gets it if the lock is free again and again.
SpecFair ==
    /\ Init
    /\ [][Next]_vars
    /\ WF_vars(stream)
    /\ SF_vars(SDispAcquire)
    /\ \A w \in Passes : WF_vars(analyzer(w)) /\ SF_vars(WCbAcquire(w))

(***************************************************************************)
(* The server with its request threads.                                    *)
(***************************************************************************)
NextApp ==
    \E h \in Handlers :
        \/ RArrive(h)
        \/ RCheck(h)
        \/ RSet(h)
        \/ RParse(h)
        \/ RDetect(h, FewDetections)
        \/ RRegion(h)
        \/ RDescribe(h)
        \/ RFallback(h)
        \/ RRespond(h)
        \/ RFinally(h)

SpecApp == Init /\ [][NextApp]_vars

(***************************************************************************)
(* One analysis run over every detector output: either the capture         *)
(* program with its first pass started (camera.py 61 has returned), or     *)
(* the server with a first request whose image has been decoded (app.py    *)
(* 180).  The two are separate programs.                                   *)
(***************************************************************************)
InitPipe ==
    /\ llm = IdleLlm(max_retries)
    /\ lab = NoLabel
    /\ InitOcr
    /\ det = IdleDetector
    /\ \/ /\ InitApp
          /\ now = StartTime
          /\ analyzing = TRUE
          /\ last_analysis_time = 0
          /\ results = NoResults
          /\ results_lock = 0
          /\ save_frames = FALSE
          /\ spc = "display"
          /\ current_time = StartTime
          /\ current_results = NoResults
          /\ npass = 1
          /\ wk = [p \in Passes |->
                     IF p = 1 THEN [NewWorker EXCEPT !.pc = "detect"]
                     ELSE NewWorker]
          /\ completed = NoResults
       \/ /\ InitCamera
          /\ save_frames = FALSE
          /\ is_analyzing = TRUE
          /\ rq = [h \in Handlers |->
                     IF h = 1
                     THEN [NewRequest EXCEPT !.pc = "detect", !.body = "image"]
                     ELSE NewRequest]

NextPipe ==
    \/ WDetect(1, AllDetections)
    \/ WRegion(1)
    \/ WDescribe(1)
    \/ WCbAcquire(1)
    \/ WCbResults(1)
    \/ WCbFlag(1)
    \/ WCbTime(1)
    \/ WCbRelease(1)
    \/ RDetect(1, AllDetections)
    \/ RRegion(1)
    \/ RDescribe(1)
    \/ RFallback(1)
    \/ RRespond(1)

SpecPipe == InitPipe /\ [][NextPipe]_vars

(***************************************************************************)
(* The describer alone.                                                    *)
(***************************************************************************)
NextLlm ==
    \/ LCall
    \/ LRequest
    \/ LExcept
    \/ LSleep

InitDescriber ==
    InitCamera /\ save_frames = FALSE /\ InitApp /\ InitLlm /\ lab = NoLabel
        /\ InitOcr /\ det = IdleDetector

SpecLlm == InitDescriber /\ [][NextLlm]_vars

\* one step inside a call of analyze_image
analyze_image == LRequest \/ LExcept \/ LSleep

\* The describer when the thread that called it keeps running and every
\* generate_content request returns or raises.
SpecLlmFair == InitDescriber /\ [][NextLlm]_vars /\ WF_vars(analyze_image)

(***************************************************************************)
(* The result of one response.                                             *)
(***************************************************************************)
NextLabel ==
    \/ MakeLabel

InitResult ==
    InitCamera /\ save_frames = FALSE /\ InitApp /\ llm = IdleLlm(max_retries)
        /\ InitLabel /\ InitOcr /\ det = IdleDetector

SpecLabel == InitResult /\ [][NextLabel]_vars

(***************************************************************************)
(* The detector alone.                                                     *)
(***************************************************************************)
NextDetector ==
    \/ DModel
    \/ DInfer
    \/ DConvert
    \/ DExcept

InitDetection ==
    InitCamera /\ save_frames = FALSE /\ InitApp /\ llm = IdleLlm(max_retries)
        /\ lab = NoLabel /\ InitOcr /\ InitDetector

SpecDetector == InitDetection /\ [][NextDetector]_vars

(***************************************************************************)
(* The capture loop of handlers/ocr.py with its Analyzer threads.          *)
(***************************************************************************)
NextOcr ==
    \/ OTick
    \/ OCapture
    \/ OGateTime
    \/ OGateFlag
    \/ OAnalyzeFrame
    \/ OOverlayAcquire
    \/ OOverlayDraw
    \/ \E p \in Passes :
         \/ OAnalyze(p)
         \/ OCbAcquire(p)
         \/ OCbStore(p)
         \/ OCbFlag(p)

InitOcrCamera == Init /\ save_frames = FALSE

SpecOcr == InitOcrCamera /\ [][NextOcr]_vars

(***************************************************************************)
(* Properties of the capture loop (camera.py) and its passes.              *)
(***************************************************************************)
\* Pass w is in flight from analyze_frame's analyzing = True until its
\* callback's analyzing = False.
InFlight(w) == wk[w].pc # "new" /\ ~wk[w].cleared

InCallback(w) ==
    wk[w].pc \in {"cb_acquire", "cb_results", "cb_flag", "cb_time", "cb_release"}

\* C1: under every interleaving of the capture loop with the Analyzer
\* threads, at most one pass is in flight at any time.
C1_AtMostOneInFlight ==
    Cardinality({w \in Passes : InFlight(w)}) <= 1

\* a later pass is in its describer call while the loop, a full interval
\* after the previous completion, is about to test the flag
C1_Witness ==
    /\ wk[MaxPasses].pc = "describing"
    /\ spc = "gate_flag"

\* C3: a pass is dispatched only when no pass has completed less than
\* analyze_interval ago: at the call of analyze_frame, the latest
\* completion time t (last_analysis_time, once a pass has completed)
\* satisfies now >= t + analyze_interval.
C3_DispatchAfterInterval ==
    [][ (spc = "dispatch" /\ spc' = "start")
          => (last_analysis_time = 0
              \/ now >= last_analysis_time + analyze_interval) ]_vars

\* C4: every pass that runs Analyzer.analyze calls on_analysis_complete
\* exactly once, on every path; when that call is about to return it has
\* published the pass's batch, has reset the flag (the flag is set again
\* only by the dispatch of another pass), and last_analysis_time is the
\* time it read.
C4_ExactlyOneCallback ==
    \A w \in Passes :
        /\ wk[w].calls <= 1
        /\ wk[w].pc = "done" => wk[w].calls = 1
        /\ wk[w].pc = "cb_release" =>
             /\ results = [pass |-> w, items |-> wk[w].batch]
             /\ wk[w].cleared
             /\ analyzing => \E q \in Passes : q # w /\ InFlight(q)
             /\ last_analysis_time = wk[w].t_complete

\* a pass has ended and its batch, which is not empty, is the stored one
C4_Witness ==
    /\ wk[1].pc = "done"
    /\ results.pass = 1
    /\ results.items # <<>>
    /\ ~analyzing

\* C12: whenever process_frame_for_display copies the stored batch, what
\* it obtains is whole: either the initial empty batch (no pass has
\* completed) or the complete batch of the pass that completed last, whose
\* callback has returned.  The stored batch is that batch whenever no
\* callback holds the lock, and no callback is between its write of the
\* batch and its return while the batch is read.
C12_ReaderSeesLatestCompleteBatch ==
    /\ [](results_lock \notin Passes => results = completed)
    /\ [][ (spc = "disp_copy" /\ spc' = "disp_status") =>
             /\ current_results' = completed
             /\ \/ completed = NoResults /\ \A w \in Passes : wk[w].pc # "done"
                \/ /\ completed.pass \in Passes
                   /\ wk[completed.pass].pc = "done"
             /\ \A w \in Passes :
                    wk[w].pc \notin {"cb_results", "cb_flag", "cb_time", "cb_release"}
         ]_vars

\* the loop has obtained the batch of pass 1, one result, while pass 2 is
\* at the callback's lock
C12_Witness ==
    /\ spc = "disp_status"
    /\ current_results.pass = 1
    /\ Len(current_results.items) = 1
    /\ wk[2].pc = "cb_acquire"

\* C13: while a pass is in its describer call, the capture loop's thread
\* can take its next step without the pass moving: wherever it is in its
\* iteration, its next statement is enabled, or it is at the lock and the
\* lock is held by the callback of another pass, whose describer calls
\* have returned.
C13_LoopNeverBlocked ==
    \A w \in Passes :
        wk[w].pc = "describing" =>
            \/ ENABLED stream
            \/ \E q \in Passes \ {w} :
                   /\ spc = "disp_acquire"
                   /\ results_lock = q
                   /\ wk[q].pc \in {"cb_results", "cb_flag", "cb_time", "cb_release"}

\* pass 1 is still in its describer call and the loop has read the clock
\* of a later iteration
C13_Witness ==
    /\ wk[1].pc = "describing"
    /\ spc = "gate_time"
    /\ current_time > StartTime

\* C14: results_lock is held only around the write or the read of the
\* stored batch: a pass holds it only inside on_analysis_complete (65-68),
\* never while it is in the detector call, the region loop or a describer
\* call, and the loop's thread holds it only for the copy at 86.
C14_LockOnlyAroundBatch ==
    /\ results_lock \in {0, StreamThread} \cup Passes
    /\ \A w \in Passes :
           /\ results_lock = w =>
                  wk[w].pc \in {"cb_results", "cb_flag", "cb_time", "cb_release"}
           /\ wk[w].pc \in {"built", "detect", "region", "describing"} =>
                  results_lock # w
    /\ results_lock = StreamThread <=> spc = "disp_copy"

\* a pass that has made a describer call holds the lock in its callback
\* while the loop waits to read the batch
C14_Witness ==
    /\ results_lock = 2
    /\ wk[2].dcalls >= 1
    /\ wk[2].pc = "cb_results"
    /\ spc = "disp_acquire"

\* C15: every read and every write of Camera.analyzing and of
\* Camera.results happens while the thread that makes it holds
\* results_lock: the loop's thread when it is about to read the flag (164,
\* 116), to set it (56) or to read the batch (169, 86), a pass when it is
\* about to write the batch (66) or to reset the flag (67).
C15_FlagAndBatchUnderLock ==
    /\ spc \in {"gate_flag", "dispatch", "display", "disp_copy", "disp_status"}
           => results_lock = StreamThread
    /\ \A w \in Passes :
           wk[w].pc \in {"cb_results", "cb_flag"} => results_lock = w

\* C22: under fair scheduling, with every detector and describer call
\* returning, whenever the flag is set (a pass has entered Running) it is
\* reset later (the scheduler is Idle again), also when the thread of the
\* pass could not be started or the pass failed.
C22_RunningReturnsToIdle == analyzing ~> ~analyzing

\* C6: every pass makes at least one describer call before it publishes
\* its batch.
C6_EveryPassDescribes ==
    \A w \in Passes : InCallback(w) => wk[w].dcalls >= 1

(***************************************************************************)
(* Properties of the capture loop of handlers/ocr.py.                      *)
(***************************************************************************)
\* C20: in handlers/ocr.py, while an Analyzer that was started has not yet
\* called on_analysis_complete no second Analyzer is started, and two
\* consecutive calls of analyze_frame are at least analyze_interval apart.
C20_OcrNoOverlapAndInterval ==
    /\ [](Cardinality({p \in Passes : ocr.wk[p] = "run"}) <= 1)
    /\ [][ (ocr.spc = "dispatch" /\ ocr'.spc = "overlay" /\ ocr.nstart >= 1)
             => ocr.now >= ocr.t_dispatch + ocr_analyze_interval ]_vars

(***************************************************************************)
(* Properties of the server (app.py).                                      *)
(***************************************************************************)
\* request h is between the detector call and its return statement
InPipeline(h) ==
    rq[h].pc \in {"detect", "region", "describing", "fallback", "respond"}

\* C2: at most one request executes the detect/describe pipeline at a
\* time; a request that finds another one between is_analyzing = True and
\* its return is answered 429.
C2_SingleFlight ==
    Cardinality({h \in Handlers : InPipeline(h)}) <= 1

C26_BusyAnswerKeepsFlag ==
    [][ \A h \in Handlers :
          (rq[h].pc = "finally" /\ rq[h].status = 429 /\ rq'[h].pc = "idle")
              => is_analyzing' = is_analyzing ]_vars

\* request h has set the flag and has not returned yet
C27_HoldsFlag(h) ==
    \/ rq[h].pc \in {"parse", "detect", "region", "describing", "fallback",
                      "respond"}
    \/ rq[h].pc = "finally" /\ rq[h].status # 429

\* C27: the flag is set only while a request that set it is still
\* executing, and a request answered 400, 200 or 500 leaves it clear when
\* it returns; so when no request is executing the flag is clear and the
\* next request is accepted.
C27_FlagClearedOnEveryExit ==
    /\ [](is_analyzing => \E h \in Handlers : C27_HoldsFlag(h))
    /\ []((\A h \in Handlers : rq[h].pc \in {"idle", "check"}) => ~is_analyzing)
    /\ [][ \A h \in Handlers :
            (rq[h].pc = "finally" /\ rq[h].status \in {200, 400, 500}
               /\ rq'[h].pc = "idle") => ~is_analyzing' ]_vars

\* a request that failed with 500 is about to return with the flag still
\* set and no other request around
C27_Witness ==
    /\ rq[1].pc = "finally"
    /\ rq[1].status = 500
    /\ is_analyzing
    /\ rq[2].pc = "idle"

(***************************************************************************)
(* Properties of one analysis run (Analyzer.analyze, process_image).       *)
(***************************************************************************)
\* the selected regions that gave a description, by their number
SuccIdx(outs) ==
    SelectSeq([i \in 1..Len(outs) |-> i], LAMBDA i : outs[i] = "text")

\* the describer call made for selected region i
CallNo(outs, i) == Cardinality({j \in 1..i : outs[j] # "invalid"})

\* C5: when the detector returns an empty list for a decodable image, the
\* whole frame [0,0,w,h] is the single region to analyse, it is sent to the
\* describer, and every detection of the response comes from a describer
\* call on the whole frame.
C5_EmptyDetectionFullFrame ==
    \A h \in Handlers :
        LET r == rq[h] IN
        (r.det_empty /\ r.pc \in {"region", "describing", "fallback",
                                   "respond", "finally"}) =>
            /\ r.regions = << Region(FullFrameBox) >>
            /\ (r.pc # "region" \/ r.idx > 1) =>
                   (r.dcalls >= 1 /\ r.sent[1] = WholeFrame)
            /\ \A k \in 1..Len(r.detections) :
                   /\ r.detections[k].full_text \in 1..Len(r.sent)
                   /\ r.sent[r.detections[k].full_text] = WholeFrame

\* the detector returned [], the whole frame was described at the first
\* call, and the response carries that one detection, over the whole frame
C5_Witness ==
    /\ rq[1].det_empty
    /\ rq[1].pc = "finally"
    /\ rq[1].status = 200
    /\ rq[1].dcalls = 1
    /\ Len(rq[1].detections) = 1
    /\ rq[1].detections[1].boundingBox = BoundingBox(WholeFrame)

\* the batch of a pass: the results of the regions that succeeded, in
\* selection order
BatchIsSucceeded(w) ==
    LET r == wk[w]  ok == SuccIdx(r.outs) IN
    /\ Len(r.outs) = Len(r.regions)
    /\ r.batch = [k \in 1..Len(ok) |-> EnhancedResult(r.regions[ok[k]], ok[k])]

\* the detections of a request: those of the regions that succeeded, in
\* selection order
DetectionsAreSucceeded(h) ==
    LET r == rq[h]  ok == SuccIdx(r.outs) IN
    /\ Len(r.outs) = Len(r.regions)
    /\ r.detections = [k \in 1..Len(ok) |->
                          Detection(r.regions[ok[k]].box, ok[k], CallNo(r.outs, ok[k]))]

\* C7 as claimed: in Analyzer.analyze and in process_image, whatever the
\* outcomes of the selected regions, the resulting batch is exactly the
\* results of the regions that succeeded, in selection order.
C7_BatchIsSucceededRegions ==
    /\ \A w \in Passes :
           (InCallback(w) /\ wk[w].site = 135) => BatchIsSucceeded(w)
    /\ \A h \in Handlers :
           rq[h].pc \in {"respond", "finally"} /\ rq[h].body = "image"
               => DetectionsAreSucceeded(h)

\* C7 as amended: the same, except that in process_image, when no selected
\* region succeeded, the batch is what the single whole-frame call gave
\* (one detection, or none).
C7_BatchIsSucceededOrFallback ==
    /\ \A w \in Passes :
           (InCallback(w) /\ wk[w].site = 135) => BatchIsSucceeded(w)
    /\ \A h \in Handlers :
           rq[h].pc \in {"respond", "finally"} /\ rq[h].body = "image" =>
               IF SuccIdx(rq[h].outs) # <<>>
               THEN DetectionsAreSucceeded(h)
               ELSE /\ Len(rq[h].outs) = Len(rq[h].regions)
                    /\ rq[h].detections \in
                         { <<>>, << FrameDetection(rq[h].dcalls) >> }

\* the describer failed for the first of two regions and succeeded for the
\* second: the pass reports one result, the second region's
C7_Witness ==
    /\ wk[1].pc = "cb_acquire"
    /\ wk[1].outs \in { <<"raise", "text">>, <<"error", "text">> }
    /\ Len(wk[1].batch) = 1
    /\ wk[1].batch[1] = EnhancedResult(wk[1].regions[2], 2)

\* C8: process_image calls the describer on the whole frame exactly once
\* if and only if no selected region produced a result; if that call
\* succeeds the response has exactly the one detection built from it, if
\* it fails the response has no detection.
C8_LastResortOnce ==
    \A h \in Handlers :
        LET r == rq[h] IN
        /\ r.fb_calls <= 1
        /\ r.pc = "fallback" => r.fb_calls = 1
        /\ r.fb_calls = 1 =>
               /\ r.detections = <<>> \/ r.fb_out = "text"
               /\ r.sent[Len(r.sent)] = WholeFrame
        /\ r.pc \in {"respond", "finally"} /\ r.body = "image" =>
               /\ r.fb_calls = (IF SuccIdx(r.outs) = <<>> THEN 1 ELSE 0)
               /\ r.fb_calls = 1 /\ r.fb_out = "text" =>
                      r.detections = << FrameDetection(r.dcalls) >>
               /\ r.fb_calls = 1 /\ r.fb_out = "error" => r.detections = <<>>

\* both selected regions gave nothing (one failed, one was invalid) and
\* the whole-frame call gave the response's only detection
C8_Witness ==
    /\ rq[1].pc = "finally"
    /\ rq[1].status = 200
    /\ Len(rq[1].outs) = 2
    /\ SuccIdx(rq[1].outs) = <<>>
    /\ rq[1].fb_calls = 1
    /\ rq[1].fb_out = "text"
    /\ Len(rq[1].detections) = 1

\* C11: a request whose image decoded (one that process_image accepted and
\* sent to the detector) ends with status 200 and a list of at most
\* max_regions detections,
\* whatever the detector returned and whichever describer calls failed;
\* when every region call and the whole-frame call failed, the list is
\* empty.
C11_DecodableImageAnswered200 ==
    \A h \in Handlers :
        LET r == rq[h] IN
        (r.body = "image" /\ r.det_calls = 1 /\ r.pc = "finally") =>
            /\ r.status = 200
            /\ Len(r.detections) \in 0..max_regions
            /\ (SuccIdx(r.outs) = <<>> /\ r.fb_out = "error") => r.detections = <<>>

\* two regions were selected; one describer call raised, the other gave an
\* "Error:" string, the whole-frame call failed too: 200 with no detection
C11_Witness ==
    /\ rq[1].pc = "finally"
    /\ rq[1].status = 200
    /\ rq[1].outs \in { <<"raise", "error">>, <<"error", "raise">> }
    /\ rq[1].fb_out = "error"
    /\ rq[1].detections = <<>>

\* fractions <<numerator, denominator>> with a positive denominator
RatEq(p, q) == p[1] * q[2] = q[1] * p[2]

\* C17: in process_image every detection made from a region (no whole-frame
\* call was made) carries the region's box, its coordinates cut to whole
\* pixels and clamped to the frame, as fractions of the frame's width and
\* height: x = x1/w, y = y1/h, width = (x2-x1)/w, height = (y2-y1)/h; the
\* box lies in the unit square and its width and height are positive.  A
\* single full-frame region that is described gives exactly one detection,
\* with x = 0, y = 0, width = 1, height = 1 and the text of that call.
C17_BoundingBoxNormalised ==
    \A h \in Handlers :
        LET r == rq[h] IN
        /\ r.fb_calls = 0 =>
              \A k \in 1..Len(r.detections) :
                  LET d  == r.detections[k]
                      b  == r.regions[d.id].box
                      x1 == Max(0, PyInt(b[1]))
                      y1 == Max(0, PyInt(b[2]))
                      x2 == Min(FrameW, PyInt(b[3]))
                      y2 == Min(FrameH, PyInt(b[4]))
                      bb == d.boundingBox
                  IN  /\ bb.x = << x1, FrameW >>
                      /\ bb.y = << y1, FrameH >>
                      /\ bb.width = << x2 - x1, FrameW >>
                      /\ bb.height = << y2 - y1, FrameH >>
                      /\ bb.x[1] >= 0 /\ bb.y[1] >= 0
                      /\ bb.width[1] > 0 /\ bb.height[1] > 0
                      /\ bb.x[1] + bb.width[1] <= bb.x[2]
                      /\ bb.y[1] + bb.height[1] <= bb.y[2]
        /\ (r.regions = << Region(FullFrameBox) >> /\ r.outs = << "text" >>) =>
              /\ Len(r.detections) = 1
              /\ r.detections[1].full_text = 1
              /\ RatEq(r.detections[1].boundingBox.x, <<0, 1>>)
              /\ RatEq(r.detections[1].boundingBox.y, <<0, 1>>)
              /\ RatEq(r.detections[1].boundingBox.width, <<1, 1>>)
              /\ RatEq(r.detections[1].boundingBox.height, <<1, 1>>)

\* a region that reaches beyond the frame's right and lower edges was
\* described: its detection ends at the edges
C17_Witness ==
    /\ rq[1].pc = "respond"
    /\ Len(rq[1].detections) >= 1
    /\ rq[1].regions[rq[1].detections[1].id].box =
           << Px(30), Px(30), Px(FrameW + 10), Px(FrameH + 10) >>
    /\ rq[1].detections[1].boundingBox.x = << 30, FrameW >>
    /\ rq[1].detections[1].boundingBox.width = << FrameW - 30, FrameW >>

\* C18: in Analyzer.analyze a selected region whose detector box has zero
\* or negative width or height is skipped: no describer call is made for
\* it, and no result of a published batch carries a box with x2 <= x1 or
\* y2 <= y1.
C18_DegenerateRegionSkipped ==
    \A w \in Passes :
        /\ wk[w].pc = "describing" =>
               LET b == wk[w].regions[wk[w].idx].box
               IN  b[3] > b[1] /\ b[4] > b[2]
        /\ InCallback(w) =>
               \A k \in 1..Len(wk[w].batch) :
                   LET b == wk[w].batch[k].box
                   IN  b[3] > b[1] /\ b[4] > b[2]

\* C21: within one pass each selected region is sent to analyze_image at
\* most once: the calls made so far are one per region that was not
\* skipped, plus the call in progress, plus in process_image the single
\* whole-frame call; so Analyzer.analyze makes at most 2 calls and
\* process_image at most 3.
C21_OneCallPerRegion ==
    /\ \A w \in Passes :
           wk[w].pc \in {"region", "describing", "cb_acquire", "cb_results",
                         "cb_flag", "cb_time", "cb_release"} =>
               /\ wk[w].dcalls = CallNo(wk[w].outs, Len(wk[w].outs))
                                   + (IF wk[w].pc = "describing" THEN 1 ELSE 0)
               /\ Len(wk[w].outs) <= Len(wk[w].regions)
               /\ wk[w].dcalls <= 2
    /\ \A h \in Handlers :
           /\ rq[h].dcalls = CallNo(rq[h].outs, Len(rq[h].outs))
                                + (IF rq[h].pc = "describing" THEN 1 ELSE 0)
                                + rq[h].fb_calls
           /\ Len(rq[h].outs) <= Len(rq[h].regions)
           /\ rq[h].fb_calls <= 1
           /\ rq[h].dcalls <= 3

\* a request whose two region calls failed and whose whole-frame call
\* failed: three calls in all
C21_Witness ==
    /\ rq[1].pc = "respond"
    /\ rq[1].dcalls = 3
    /\ rq[1].fb_calls = 1
    /\ \A k \in 1..2 : rq[1].outs[k] \in {"error", "raise"}
    /\ rq[1].fb_out = "error"

\* the place of region i of the list R when the list is ordered by area,
\* largest first, regions of equal area in the order of the list
Rank(R, i) ==
    Cardinality({ j \in 1..Len(R) :
                    \/ Area(R[j].box) > Area(R[i].box)
                    \/ Area(R[j].box) = Area(R[i].box) /\ j < i }) + 1

IsSelectionOf(S, R) ==
    /\ Len(S) = Min(2, Len(R))
    /\ \A k \in 1..Len(S) : \E i \in 1..Len(R) : Rank(R, i) = k /\ S[k] = R[i]

\* C9: in Analyzer.analyze and in process_image the regions to analyse are
\* the min(2, n) regions of largest box area, in descending area order,
\* regions of equal area in the detector's order.
C9_LargestTwoStable ==
    /\ \A w \in Passes :
           wk[w].pc \in {"region", "describing"}
               => IsSelectionOf(wk[w].regions, wk[w].cands)
    /\ \A h \in Handlers :
           rq[h].pc \in {"region", "describing"}
               => IsSelectionOf(rq[h].regions, rq[h].cands)

\* the detector reported areas 100, 50, 200 (pixels); the regions of area
\* 200 and 100 are selected, in that order
C9_Witness ==
    /\ rq[1].pc = "region"
    /\ rq[1].cands = << Region(<<Px(10), Px(10), Px(20), Px(20)>>),
                        Region(<<Px(10), Px(10), Px(20), Px(15)>>),
                        Region(<<Px(0), Px(0), Px(20), Px(10)>>) >>
    /\ rq[1].regions = << Region(<<Px(0), Px(0), Px(20), Px(10)>>),
                          Region(<<Px(10), Px(10), Px(20), Px(20)>>) >>

(***************************************************************************)
(* Properties of the result of one response (analyzer.py 102-125).         *)
(***************************************************************************)
\* C19: for every result of Analyzer.analyze, whatever the length of the
\* describer's response and whatever the subject marker, the display
\* label has at most 80 characters and full_text is the response,
\* unmodified.
C19_LabelWithinBudget ==
    lab.pc = "result" =>
        /\ Len(lab.label) <= LabelLimit
        /\ lab.full_text = lab.response.text

(***************************************************************************)
(* Properties of the describer (llm.py).                                   *)
(***************************************************************************)
\* C10 as claimed: one analyze_image call makes at most max_retries
\* attempts in total (2 with the default max_retries = 2).
C10_AtMostMaxRetriesAttempts ==
    llm.max_retries = max_retries => llm.attempts <= max_retries

\* C10 as amended: one analyze_image call makes at most max_retries + 1
\* attempts in total, the first one and max_retries retries (3 with the
\* default); when every request fails it makes exactly that many and
\* returns an "Error:" string.
C10_AtMostMaxRetriesPlusOneAttempts ==
    /\ llm.attempts <= llm.max_retries + 1
    /\ llm.retry_count <= llm.max_retries
    /\ (llm.pc = "returned" /\ llm.failures = llm.attempts) =>
           /\ llm.attempts = llm.max_retries + 1
           /\ llm.result = "error"

\* with the default max_retries every request failed: three attempts, then
\* the "Error:" string
C10_Witness ==
    /\ llm.max_retries = max_retries
    /\ llm.pc = "returned"
    /\ llm.failures = 3
    /\ llm.attempts = 3
    /\ llm.result = "error"

\* C23: the wait before the k-th retry of a call is 2^k seconds (2, then
\* 4 with the default max_retries), one wait before each retry and none
\* after the last failed attempt.
C23_BackoffDoubles ==
    /\ \A k \in 1..Len(llm.waits) : llm.waits[k] = 2 ^ k
    /\ Len(llm.waits) = llm.retry_count
    /\ llm.pc = "request" => Len(llm.waits) = llm.attempts
    /\ llm.pc = "returned" => Len(llm.waits) = llm.attempts - 1
    /\ llm.max_retries = max_retries => Len(llm.waits) <= 2

\* with the default max_retries every request failed: a wait of 2 s and
\* one of 4 s, and the "Error:" string right after the third failure
C23_Witness ==
    /\ llm.max_retries = max_retries
    /\ llm.pc = "returned"
    /\ llm.failures = llm.attempts
    /\ llm.waits = << 2, 4 >>

\* C24: a call of analyze_image ends, whatever requests fail, and it ends
\* with a return, never an exception: with the text of the first request
\* that succeeded or, when the first max_retries + 1 requests all raised,
\* with an "Error:" string; the calls of itself on the stack are never
\* more than max_retries.
C24_ReturnsWithinMaxRetriesDeep ==
    /\ [](/\ llm.depth <= llm.max_retries
          /\ llm.depth = llm.retry_count - (IF llm.pc = "sleep" THEN 1 ELSE 0)
          /\ llm.pc = "returned" =>
                 /\ llm.result \in {"text", "error"}
                 /\ llm.result = "text" => llm.failures = llm.attempts - 1
                 /\ llm.failures = llm.attempts =>
                        llm.result = "error" /\ llm.failures = llm.max_retries + 1)
    /\ (llm.pc = "request") ~> (llm.pc = "returned")

\* the deepest recursion of the widest wrapper, ended by a success
C24_Witness ==
    /\ llm.max_retries = RetryCap
    /\ llm.depth = RetryCap
    /\ llm.pc = "returned"
    /\ llm.result = "text"

(***************************************************************************)
(* Properties of the detector (detector.py).                               *)
(***************************************************************************)
\* the boxes <<r, b>> of an inference that the claim says are kept
C25_Kept(inferred) ==
    { rb \in (1..Len(inferred)) \X (1..MaxBoxes) :
        /\ rb[2] <= Len(inferred[rb[1]])
        /\ \/ Len(inferred[rb[1]]) < 3
           \/ lower(inferred[rb[1]][rb[2]]) \in text_related_classes }

\* C25: detect_text always ends with a returned list: the empty list when
\* the model is missing or anything in the inference raised; otherwise a
\* non-empty list, which holds one detection for each box that belongs to
\* a result of fewer than 3 boxes or has a text-related class, and nothing
\* else, or the single region "Full Frame" [0, 0, w, h] when there is no
\* such box.
C25_DetectTextNeverRaises ==
    det.pc = "returned" =>
       IF det.model = "None" \/ det.caught
       THEN det.out = << >>
       ELSE /\ ~det.raises
            /\ det.out # << >>
            /\ IF C25_Kept(det.infer) = {}
               THEN det.out = << [label |-> "Full Frame",
                                  box |-> << 0, 0, Px(FrameW), Px(FrameH) >>] >>
               ELSE /\ Len(det.out) = Cardinality(C25_Kept(det.infer))
                    /\ { det.out[i] : i \in 1..Len(det.out) }
                         = { [label |-> det.infer[rb[1]][rb[2]],
                              box |-> xyxy(rb[1], rb[2])] :
                             rb \in C25_Kept(det.infer) }

\* a result of three boxes gives only its text-related one, next to a
\* result of one box of another class, which is kept
C25_Witness ==
    /\ det.pc = "returned"
    /\ det.model = "YOLO"
    /\ det.infer = << << "dog", "Book", "dog" >>, << "dog" >> >>
    /\ det.out = << [label |-> "Book", box |-> xyxy(1, 2)],
                    [label |-> "dog", box |-> xyxy(2, 1)] >>

=============================================================================
